---- MODULE Spec2Model ----
(***************************************************************************)
(* State-machine model of the EcommerceDashboard client: the session       *)
(* layer (AuthContext, in its e-mail/password and its phone/OTP version),  *)
(* the authenticated-fetch wrappers of hooks/useApi.ts, the page-level     *)
(* fetch functions, the route table of App.tsx and the create / update /   *)
(* delete mutations of the resource pages.                                 *)
(***************************************************************************)
EXTENDS Integers, Sequences, FiniteSets, TLC

\* ------------------------------------------------------------------ bounds

\* The clock (Date.now() / 1000) runs over 1..MaxTime.
MaxTime == 2
\* At most this many asynchronous calls are awaiting a response at once.
MaxCalls == 2
\* A form name has at most this many characters.
MaxName == 2
\* The dashboard's order list has at most this many orders ...
MaxOrders == 7
\* ... of at most this many sellers (customers, products, categories).
MaxGroups == 6

\* ------------------------------------------------------------------ tokens

\* A decodable payload without an exp claim (payload.exp is undefined).
NoExp == -1

\* The values an exp claim takes: absent, the epoch itself (the number 0),
\* or a time of the clock.
ExpClaims == {NoExp} \cup (0..MaxTime)

\* A token as the session layer sees it: "null" when the response had no
\* recognisable token field, "garbage" when the string does not decode to a
\* JSON payload, "jwt" when it does.
Tokens ==
  {[kind |-> "null", exp |-> NoExp], [kind |-> "garbage", exp |-> NoExp]}
    \cup {[kind |-> "jwt", exp |-> e] : e \in ExpClaims}

NullToken == [kind |-> "null", exp |-> NoExp]

\* JavaScript truthiness of a token value (null and "" are falsy).
TokenTruthy(token) == token.kind # "null"

\* JavaScript truthiness of payload.exp (undefined and 0 are falsy).
ExpTruthy(exp) == exp # NoExp /\ exp # 0

\* isTokenExpired(token): the truthiness of what the helper returns.  A token
\* that does not decode throws inside the try block and yields true.
isTokenExpired(token, currentTime) ==
  IF token.kind # "jwt" THEN TRUE
  ELSE ExpTruthy(token.exp) /\ token.exp < currentTime

\* What the claims call an expired token: its exp claim is a time that has
\* passed.
ExpHasPassed(token, currentTime) ==
  token.kind = "jwt" /\ token.exp # NoExp /\ token.exp < currentTime

\* ------------------------------------------------------------------ users

\* The session object (user state and the localStorage 'user' entry).
\* present = FALSE stands for null / no entry.
NoUser == [present |-> FALSE, token |-> NullToken, profile |-> FALSE]

Users ==
  {NoUser} \cup {[present |-> TRUE, token |-> t, profile |-> p] :
                   t \in Tokens, p \in BOOLEAN}

\* userData = { email, token } (AuthContext) / { phone, token } (OTP layer)
UserData(token) == [present |-> TRUE, token |-> token, profile |-> FALSE]

\* updatedUser = { ...userData, id, firstName, lastName, profilePhoto }
WithProfile(u) == [u EXCEPT !.profile = TRUE]

\* user?.token as a condition
HasToken(u) == u.present /\ TokenTruthy(u.token)

\* ------------------------------------------------------------------ routes

Paths ==
  {"/login", "/", "/categories", "/orders", "/products", "/users",
   "/media-types", "/payments", "/register-admin", "/other"}

ResourcePages ==
  {"Dashboard", "Categories", "Orders", "Products", "Users", "MediaTypes",
   "Payments", "RegisterAdmin"}

\* The inner <Routes> of App.tsx: the element of each protected path.
ProtectedElement(path) ==
  CASE path = "/" -> "Dashboard"
    [] path = "/categories" -> "Categories"
    [] path = "/orders" -> "Orders"
    [] path = "/products" -> "Products"
    [] path = "/users" -> "Users"
    [] path = "/media-types" -> "MediaTypes"
    [] path = "/payments" -> "Payments"
    [] path = "/register-admin" -> "RegisterAdmin"
    [] OTHER -> "NotFound"

\* ProtectedRoute: its children when authenticated, otherwise a redirect to
\* /login.
ProtectedRoute(path, isAuthenticated) ==
  IF isAuthenticated
    THEN [location |-> path, page |-> ProtectedElement(path)]
    ELSE [location |-> "/login", page |-> "Login"]

App_RegisterAdminPublic(path, isAuthenticated) ==
  IF path = "/login" THEN [location |-> path, page |-> "Login"]
  ELSE IF path = "/register-admin"
    THEN [location |-> path, page |-> "RegisterAdmin"]
  ELSE ProtectedRoute(path, isAuthenticated)

\* App: /login is public, every other path is inside ProtectedRoute.
App(path, isAuthenticated) ==
  IF path = "/login" THEN [location |-> path, page |-> "Login"]
  ELSE ProtectedRoute(path, isAuthenticated)

\* ------------------------------------------------------------------ state

\* HTTP outcomes of a request: fetch rejecting (no response), or a status.
NetworkError == 0
Statuses == {200, 401, 403, 500}
Outcomes == {NetworkError} \cup Statuses

IsAuthFailure(status) == status = 401 \/ status = 403

\* response.ok
Ok(status) == status >= 200 /\ status <= 299

Phones == {"0911111111", "0922222222"}

VARIABLES
  layer,         \* which AuthContext the build uses: "email" or "otp"
  now,           \* Date.now() / 1000
  user,          \* AuthProvider's user state
  storage,       \* localStorage 'user'
  isLoading,     \* AuthProvider's isLoading state
  currentStep,   \* OTP layer: 'phone' | 'otp'
  pendingPhone,  \* OTP layer: the phone awaiting its OTP ("" when none)
  location,      \* the browser's path
  page,          \* the page element the route table renders
  authLogout,    \* window.__authLogout is defined
  calls,         \* asynchronous calls awaiting their response
  cache,         \* the query cache, by query key
  ui,            \* the state of the resource page that is mounted
  last           \* the handler that ran last, and what it returned

session == <<user, storage, isLoading, currentStep, pendingPhone>>
browser == <<location, page, authLogout>>
vars == <<layer, now, user, storage, isLoading, currentStep, pendingPhone,
          location, page, authLogout, calls, cache, ui, last>>

\* The part of the state the session layer's functions write, as one value.
Cur ==
  [user |-> user, storage |-> storage, isLoading |-> isLoading,
   currentStep |-> currentStep, pendingPhone |-> pendingPhone,
   path |-> location, loggedOut |-> FALSE]

\* A call awaiting its response.  token: the token its continuation holds
\* (login / verifyOtp profile request); auth: requiresAuth; bearer: the
\* request carries an Authorization: Bearer header; phone: login(phone).
\* res, attempt, live: see Mutation below.
Call(op, token, auth, bearer, phone) ==
  [op |-> op, token |-> token, auth |-> auth, bearer |-> bearer,
   phone |-> phone, res |-> "", attempt |-> 0, live |-> TRUE]

\* What the last handler did.  status: the response it handled; ret: what it
\* returned; loggedOut: it called logout; bearer: its request carried the
\* bearer token; auth: requiresAuth; saved: the stored entry the provider's
\* initialiser read (op = "init"); res: the resource of a mutation; sent: how
\* many requests the call it belongs to has sent so far; header: the
\* credentials of the request it sent; live: the component that started the
\* mutation is still mounted; name: the name a submit sent; body: the
\* response body it parsed; toast: the message of the Error it threw; phone:
\* the phone passed to the login it belongs to; description: the description
\* a submit sent.
Did(op, status, ret, loggedOut, bearer) ==
  [op |-> op, status |-> status, ret |-> ret, loggedOut |-> loggedOut,
   bearer |-> bearer, auth |-> FALSE, saved |-> NoUser, res |-> "",
   sent |-> 0, header |-> "", live |-> TRUE, name |-> <<>>, body |-> "",
   toast |-> "", phone |-> "", description |-> <<>>]

\* The query keys of the three resource pages.
Keys == {"categories", "paymentMethods", "mediaTypes"}

\* A query that was never fetched.  shape is what the entry's data is:
\* "object" ({ categories, pagination } and the like, what the resource
\* pages' fetch functions return) or "array" (what the Products page's
\* fetchCategories returns).
NoData == [hasData |-> FALSE, invalidated |-> FALSE, shape |-> "none"]

\* The entry after a fetch function returned a value of the shape.
Fetched(shape) == [hasData |-> TRUE, invalidated |-> FALSE, shape |-> shape]

\* A fetch of the query key is running: observers that mount meanwhile share
\* it.
Fetching(k) ==
  \E c \in calls : c.res = k /\ c.op \in {"list", "productsCategories"}

\* The useState initial values of a resource page (Categories, Payments,
\* MediaTypes): dialogs closed, nothing edited or deleted, empty form.
InitialUi ==
  [isAddModalOpen |-> FALSE, isEditModalOpen |-> FALSE,
   isDeleteDialogOpen |-> FALSE, editing |-> FALSE, deleting |-> FALSE,
   isSubmitting |-> FALSE, name |-> <<>>, description |-> <<>>]

\* The Users page when it is mounted: an empty search input, the debounced
\* term equal to it, and the timeout that useDebounce's effect sets on
\* mount.  timer.value is the value the timeout's closure holds, elapsed
\* the milliseconds since it was set; held counts the milliseconds the input
\* has kept its value (up to the delay).
UsersState ==
  [searchTerm |-> <<>>, debouncedValue |-> <<>>,
   timer |-> [pending |-> TRUE, value |-> <<>>, elapsed |-> 0],
   held |-> 0]

\* The state a page component starts with when it is mounted: the Dashboard
\* has no orders yet (its queries have no data), the resource pages start
\* from InitialUi.
PageState(p) ==
  IF p = "Dashboard" THEN [orders |-> <<>>]
  ELSE IF p = "Users" THEN UsersState
  ELSE InitialUi

\* Commit a new session value: the states are set and the route table is
\* rendered again for the new user.
Apply(s) ==
  /\ user' = s.user
  /\ storage' = s.storage
  /\ isLoading' = s.isLoading
  /\ currentStep' = s.currentStep
  /\ pendingPhone' = s.pendingPhone
  /\ LET r == App(s.path, s.user.present)
     IN  /\ location' = r.location
         /\ page' = r.page
         /\ ui' = IF r.page = page THEN ui ELSE PageState(r.page)

\* The calls left awaiting a response: when the page changed, the component
\* that started a mutation is gone.
SetCalls(cs) ==
  calls' = IF page' = page THEN cs
           ELSE {[c EXCEPT !.live = FALSE] : c \in cs}

\* ------------------------------------------------------------------ session layer

logout_KeepStorage(s) ==
  IF layer = "email"
    THEN [s EXCEPT !.user = NoUser, !.path = "/login", !.loggedOut = TRUE]
    ELSE [s EXCEPT !.user = NoUser, !.currentStep = "phone",
                   !.pendingPhone = "", !.loggedOut = TRUE]

\* logout: AuthContext.tsx (setUser(null), removeItem, redirect to /login)
\* and the OTP layer (setUser(null), removeItem, step and phone reset).
logout(s) ==
  IF layer = "email"
    THEN [s EXCEPT !.user = NoUser, !.storage = NoUser, !.path = "/login",
                   !.loggedOut = TRUE]
    ELSE [s EXCEPT !.user = NoUser, !.storage = NoUser,
                   !.currentStep = "phone", !.pendingPhone = "",
                   !.loggedOut = TRUE]

\* checkTokenExpiration, run by a render whose user is u.
checkTokenExpiration(s, u) ==
  IF HasToken(u) /\ isTokenExpired(u.token, now) THEN logout(s) ELSE s

\* isUserTokenExpired
isUserTokenExpired(u) ==
  IF HasToken(u) THEN isTokenExpired(u.token, now) ELSE TRUE

SetUser_MemoryOnly(s, u) == [s EXCEPT !.user = u]

\* setUser(u); localStorage.setItem('user', JSON.stringify(u)); then, in the
\* e-mail layer, the effect on [user?.token]: a token that changed to a
\* truthy value is checked at once.
SetUser(s, u) ==
  LET t == [s EXCEPT !.user = u, !.storage = u]
      changed == HasToken(u) /\ (~HasToken(s.user) \/ s.user.token # u.token)
  IN  IF layer = "email" /\ changed THEN checkTokenExpiration(t, u) ELSE t

\* The initial user state of AuthProvider, from the stored entry.
InitialSession(saved) ==
  IF layer = "email" /\ HasToken(saved) /\ isTokenExpired(saved.token, now)
    THEN [user |-> NoUser, storage |-> NoUser]
    ELSE [user |-> saved, storage |-> saved]

\* AuthProvider is constructed (page load): state from localStorage, no call
\* of the previous document survives.
Mounted(saved, path) ==
  LET i == InitialSession(saved)
      r == App(path, i.user.present)
  IN  /\ user = i.user
      /\ storage = i.storage
      /\ isLoading = FALSE
      /\ currentStep = "phone"
      /\ pendingPhone = ""
      /\ location = r.location
      /\ page = r.page
      /\ authLogout = (layer = "email")
      /\ calls = {}
      /\ cache = [k \in Keys |-> NoData]
      /\ ui = PageState(r.page)
      /\ last = [Did("init", NetworkError, "none", FALSE, FALSE)
                   EXCEPT !.saved = saved]

Layers == {"email", "otp"}

\* The state after the application is constructed: the build uses one of
\* layers, the clock shows one of times, the stored entry is one of saveds
\* and the browser is opened at one of paths.
Start(layers, times, saveds, paths) ==
  /\ layer \in layers
  /\ now \in times
  /\ \E saved \in saveds, path \in paths : Mounted(saved, path)

\* The document is loaded again (a reload, or the navigation that
\* window.location.href = '/login' starts).
Reload ==
  /\ LET i == InitialSession(storage)
         r == App(location, i.user.present)
     IN  /\ user' = i.user
         /\ storage' = i.storage
         /\ location' = r.location
         /\ page' = r.page
  /\ isLoading' = FALSE
  /\ currentStep' = "phone"
  /\ pendingPhone' = ""
  /\ ui' = PageState(page')
  /\ authLogout' = (layer = "email")
  /\ calls' = {}
  /\ cache' = [k \in Keys |-> NoData]
  /\ last' = [Did("init", NetworkError, "none", FALSE, FALSE)
                EXCEPT !.saved = storage]
  /\ UNCHANGED <<layer, now>>

\* Time passes.
Tick ==
  /\ now < MaxTime
  /\ now' = now + 1
  /\ last' = Did("tick", NetworkError, "none", FALSE, FALSE)
  /\ UNCHANGED <<layer, session, browser, calls, cache, ui>>

\* The user follows a link or types a path.
Navigate(path) ==
  /\ path # location
  /\ Apply([Cur EXCEPT !.path = path])
  /\ last' = Did("navigate", NetworkError, "none", FALSE, FALSE)
  /\ SetCalls(calls)
  /\ UNCHANGED <<layer, now, authLogout, cache>>

\* The sidebar's Logout button (AdminLayout is rendered).
Logout ==
  /\ page \in ResourcePages \cup {"NotFound"}
  /\ Apply(logout(Cur))
  /\ last' = Did("logout", NetworkError, "none", TRUE, FALSE)
  /\ SetCalls(calls)
  /\ UNCHANGED <<layer, now, authLogout, cache>>

\* The 5-minute interval fires: it exists while user?.token is truthy.
TimerFires ==
  /\ layer = "email"
  /\ HasToken(user)
  /\ LET s == checkTokenExpiration(Cur, user)
     IN  /\ Apply(s)
         /\ last' = Did("timer", NetworkError, "none", s.loggedOut, FALSE)
  /\ SetCalls(calls)
  /\ UNCHANGED <<layer, now, authLogout, cache>>

\* ------------------------------------------------------------------ e-mail login

Room == Cardinality(calls) < MaxCalls

\* login(email, password): setIsLoading(true), POST /api/Auth/email-login.
Login ==
  /\ layer = "email"
  /\ page = "Login"
  /\ Room
  /\ Apply([Cur EXCEPT !.isLoading = TRUE])
  /\ SetCalls(calls \cup {Call("login", NullToken, FALSE, FALSE, "")})
  /\ last' = Did("login", NetworkError, "pending", FALSE, FALSE)
  /\ UNCHANGED <<layer, now, authLogout, cache>>

\* The token the response handler finds and accepts: a truthy token that
\* isTokenExpired reports makes login return false.
LoginAccepts(token) ==
  ~(TokenTruthy(token) /\ isTokenExpired(token, now))

\* The e-mail login response: status, and the token found in its body
\* (NullToken when no field holds one).
LoginResponse(c, status, token) ==
  /\ c \in calls /\ c.op = "login"
  /\ IF status # NetworkError /\ ~IsAuthFailure(status) /\ Ok(status)
        /\ LoginAccepts(token)
       THEN \* setUser(userData), setItem, GET /api/Auth/profile
            /\ Apply(SetUser(Cur, UserData(token)))
            /\ SetCalls((calls \ {c})
                 \cup {Call("loginProfile", token, FALSE, TRUE, "")})
            /\ last' = Did("loginResponse", status, "pending", FALSE, FALSE)
       ELSE \* return false; finally setIsLoading(false)
            /\ Apply([Cur EXCEPT !.isLoading = FALSE])
            /\ SetCalls(calls \ {c})
            /\ last' = Did("loginResponse", status, "false", FALSE, FALSE)
  /\ UNCHANGED <<layer, now, authLogout, cache>>

LoginProfileResponse_IgnoresAuthFailure(c, status) ==
  /\ c \in calls /\ c.op = "loginProfile"
  /\ LET s == IF status # NetworkError /\ Ok(status)
                THEN SetUser(Cur, WithProfile(UserData(c.token)))
              ELSE Cur
     IN  /\ Apply([s EXCEPT !.isLoading = FALSE])
         /\ last' = Did("loginProfileResponse", status, "true", s.loggedOut,
                        TRUE)
  /\ SetCalls(calls \ {c})
  /\ UNCHANGED <<layer, now, authLogout, cache>>

\* The profile response inside login.
LoginProfileResponse(c, status) ==
  /\ c \in calls /\ c.op = "loginProfile"
  /\ LET s == IF status # NetworkError /\ IsAuthFailure(status)
                THEN logout(Cur)
              ELSE IF status # NetworkError /\ Ok(status)
                THEN SetUser(Cur, WithProfile(UserData(c.token)))
              ELSE Cur
         ret == IF status # NetworkError /\ IsAuthFailure(status)
                  THEN "false" ELSE "true"
     IN  /\ Apply([s EXCEPT !.isLoading = FALSE])
         /\ last' = Did("loginProfileResponse", status, ret, s.loggedOut, TRUE)
  /\ SetCalls(calls \ {c})
  /\ UNCHANGED <<layer, now, authLogout, cache>>

\* ------------------------------------------------------------------ fetchUserProfile

\* fetchUserProfile(): nothing without a token; the e-mail version logs out
\* when the token is expired; otherwise GET /api/Auth/profile is sent and
\* the continuation keeps the user of the render that called it.
FetchUserProfile ==
  /\ Room
  /\ IF ~HasToken(user)
       THEN /\ last' = Did("fetchUserProfile", NetworkError, "none", FALSE,
                           FALSE)
            /\ UNCHANGED <<session, browser, calls, ui>>
       ELSE IF layer = "email" /\ isTokenExpired(user.token, now)
         THEN /\ Apply(logout(Cur))
              /\ SetCalls(calls)
              /\ last' = Did("fetchUserProfile", NetworkError, "none", TRUE,
                             FALSE)
              /\ UNCHANGED authLogout
         ELSE /\ calls' = calls \cup
                   {Call("fetchUserProfile", user.token, FALSE, TRUE, "")}
              /\ last' = Did("fetchUserProfile", NetworkError, "pending",
                             FALSE, TRUE)
              /\ UNCHANGED <<session, browser, ui>>
  /\ UNCHANGED <<layer, now, cache>>

\* The profile response of fetchUserProfile: the e-mail version logs out on
\* 401 / 403; an ok response stores { ...user, id, firstName, ... }.
FetchUserProfileResponse(c, status) ==
  /\ c \in calls /\ c.op = "fetchUserProfile"
  /\ LET s == IF status = NetworkError THEN Cur
              ELSE IF layer = "email" /\ IsAuthFailure(status)
                THEN logout(Cur)
              ELSE IF Ok(status)
                THEN SetUser(Cur, WithProfile(UserData(c.token)))
              ELSE Cur
     IN  /\ Apply(s)
         /\ last' = Did("fetchUserProfileResponse", status, "none",
                        s.loggedOut, TRUE)
  /\ SetCalls(calls \ {c})
  /\ UNCHANGED <<layer, now, authLogout, cache>>

\* ------------------------------------------------------------------ useApi

\* apiCall(url, options, requiresAuth): the check before the request.
ApiCall(requiresAuth) ==
  /\ layer = "email"
  /\ Room
  /\ LET s == IF requiresAuth THEN checkTokenExpiration(Cur, user) ELSE Cur
         refused == requiresAuth /\ isUserTokenExpired(user)
         bearer == requiresAuth /\ HasToken(s.storage)
     IN  /\ Apply(s)
         /\ IF refused
              THEN /\ SetCalls(calls)
                   /\ last' = [Did("apiCall", NetworkError, "null",
                                   s.loggedOut, FALSE)
                                 EXCEPT !.auth = requiresAuth]
              ELSE /\ SetCalls(calls \cup
                        {Call("apiCall", NullToken, requiresAuth, bearer, "")})
                   /\ last' = [Did("apiCall", NetworkError, "pending",
                                   s.loggedOut, bearer)
                                 EXCEPT !.auth = requiresAuth]
  /\ UNCHANGED <<layer, now, authLogout, cache>>

apiCallReturn_NoLogout(c, status) ==
  IF status = NetworkError THEN [s |-> Cur, ret |-> "null"]
  ELSE IF IsAuthFailure(status) /\ c.auth THEN [s |-> Cur, ret |-> "null"]
  ELSE [s |-> Cur, ret |-> "response"]

\* apiCall after the response: what it does to the session and returns.
apiCallReturn(c, status) ==
  IF status = NetworkError THEN [s |-> Cur, ret |-> "null"]
  ELSE IF IsAuthFailure(status) /\ c.auth
    THEN [s |-> logout(Cur), ret |-> "null"]
  ELSE [s |-> Cur, ret |-> "response"]

ApiCallResponse(c, status) ==
  /\ c \in calls /\ c.op = "apiCall"
  /\ LET r == apiCallReturn(c, status)
     IN  /\ Apply(r.s)
         /\ last' = [Did("apiCallResponse", status, r.ret, r.s.loggedOut,
                         c.bearer) EXCEPT !.auth = c.auth]
  /\ SetCalls(calls \ {c})
  /\ UNCHANGED <<layer, now, authLogout, cache>>

\* makeAuthenticatedCall(url, options): the token is read from localStorage.
MakeAuthenticatedCall ==
  /\ layer = "email"
  /\ Room
  /\ LET bearer == HasToken(storage)
     IN  /\ calls' = calls \cup
              {Call("makeAuthenticatedCall", NullToken, TRUE, bearer, "")}
         /\ last' = Did("makeAuthenticatedCall", NetworkError, "pending",
                        FALSE, bearer)
  /\ UNCHANGED <<layer, now, session, browser, cache, ui>>

\* makeAuthenticatedCall after the response.
makeAuthenticatedCallReturn(c, status) ==
  IF status = NetworkError THEN [s |-> Cur, ret |-> "null"]
  ELSE IF IsAuthFailure(status)
    THEN [s |-> IF authLogout THEN logout(Cur) ELSE Cur, ret |-> "null"]
  ELSE [s |-> Cur, ret |-> "response"]

MakeAuthenticatedCallResponse(c, status) ==
  /\ c \in calls /\ c.op = "makeAuthenticatedCall"
  /\ LET r == makeAuthenticatedCallReturn(c, status)
     IN  /\ Apply(r.s)
         /\ last' = Did("makeAuthenticatedCallResponse", status, r.ret,
                        r.s.loggedOut, c.bearer)
  /\ SetCalls(calls \ {c})
  /\ UNCHANGED <<layer, now, authLogout, cache>>

\* ------------------------------------------------------------------ page fetches

\* The page-level list fetches and the page each query lives on.
PageFetches == {"fetchOrders", "fetchPaymentMethods", "fetchUsers"}

FetchPage(op) ==
  CASE op = "fetchOrders" -> "Orders"
    [] op = "fetchPaymentMethods" -> "Payments"
    [] op = "fetchUsers" -> "Users"

\* The query is enabled (user?.token, isAuthenticated) and its queryFn sends
\* the request with Authorization: Bearer <token>.
PageFetch(op) ==
  /\ op \in PageFetches
  /\ page = FetchPage(op)
  /\ HasToken(user)
  /\ Room
  /\ calls' = calls \cup {Call(op, NullToken, TRUE, TRUE, "")}
  /\ last' = [Did(op, NetworkError, "pending", FALSE, TRUE)
                EXCEPT !.name = IF op = "fetchUsers"
                                  THEN ui.debouncedValue ELSE <<>>]
  /\ UNCHANGED <<layer, now, session, browser, cache, ui>>

\* fetchOrders / fetchPaymentMethods / fetchUsers after the response: a
\* response that is not ok throws an Error, an ok one returns the rows.
pageFetchReturn(c, status) ==
  IF status = NetworkError THEN [s |-> Cur, ret |-> "throw"]
  ELSE IF ~Ok(status) THEN [s |-> Cur, ret |-> "throw"]
  ELSE [s |-> Cur, ret |-> "data"]

PageFetchResponse(c, status) ==
  /\ c \in calls /\ c.op \in PageFetches
  /\ LET r == pageFetchReturn(c, status)
     IN  /\ Apply(r.s)
         /\ last' = Did(c.op, status, r.ret, r.s.loggedOut, c.bearer)
  /\ SetCalls(calls \ {c})
  /\ UNCHANGED <<layer, now, authLogout, cache>>

\* ------------------------------------------------------------------ phone / OTP layer

\* login(phone): POST /api/Auth/login.  The phone form calls it with the
\* phone typed, the Resend link of the OTP form with pendingPhone.
OtpLogin(phone) ==
  /\ layer = "otp"
  /\ page = "Login"
  /\ currentStep = "phone" \/ phone = pendingPhone
  /\ Room
  /\ Apply([Cur EXCEPT !.isLoading = TRUE])
  /\ SetCalls(calls \cup {Call("otpLogin", NullToken, FALSE, FALSE, phone)})
  /\ last' = Did("otpLogin", NetworkError, "pending", FALSE, FALSE)
  /\ UNCHANGED <<layer, now, authLogout, cache>>

OtpLoginResponse_FailureResetsStep(c, status) ==
  /\ c \in calls /\ c.op = "otpLogin"
  /\ LET ok == status # NetworkError /\ Ok(status)
         s == IF ok THEN [Cur EXCEPT !.pendingPhone = c.phone,
                                     !.currentStep = "otp"]
              ELSE [Cur EXCEPT !.pendingPhone = "", !.currentStep = "phone"]
     IN  /\ Apply([s EXCEPT !.isLoading = FALSE])
         /\ last' = [Did("otpLoginResponse", status,
                         IF ok THEN "true" ELSE "false", FALSE, FALSE)
                       EXCEPT !.phone = c.phone]
  /\ SetCalls(calls \ {c})
  /\ UNCHANGED <<layer, now, authLogout, cache>>

\* The response to login(phone): ok sets pendingPhone and the 'otp' step.
OtpLoginResponse(c, status) ==
  /\ c \in calls /\ c.op = "otpLogin"
  /\ LET ok == status # NetworkError /\ Ok(status)
         s == IF ok THEN [Cur EXCEPT !.pendingPhone = c.phone,
                                     !.currentStep = "otp"]
              ELSE Cur
     IN  /\ Apply([s EXCEPT !.isLoading = FALSE])
         /\ last' = [Did("otpLoginResponse", status,
                         IF ok THEN "true" ELSE "false", FALSE, FALSE)
                       EXCEPT !.phone = c.phone]
  /\ SetCalls(calls \ {c})
  /\ UNCHANGED <<layer, now, authLogout, cache>>

\* verifyOtp(pendingPhone, otp): POST /api/Auth/verify-otp.
VerifyOtp ==
  /\ layer = "otp"
  /\ page = "Login" /\ currentStep = "otp"
  /\ Room
  /\ Apply([Cur EXCEPT !.isLoading = TRUE])
  /\ SetCalls(calls \cup
       {Call("verifyOtp", NullToken, FALSE, FALSE, pendingPhone)})
  /\ last' = Did("verifyOtp", NetworkError, "pending", FALSE, FALSE)
  /\ UNCHANGED <<layer, now, authLogout, cache>>

VerifyOtpResponse(c, status, token) ==
  /\ c \in calls /\ c.op = "verifyOtp"
  /\ IF status # NetworkError /\ Ok(status)
       THEN /\ Apply([SetUser(Cur, UserData(token))
                        EXCEPT !.currentStep = "phone", !.pendingPhone = ""])
            /\ SetCalls((calls \ {c})
                 \cup {Call("verifyProfile", token, FALSE, TRUE, c.phone)})
            /\ last' = Did("verifyOtpResponse", status, "pending", FALSE,
                           FALSE)
       ELSE /\ Apply([Cur EXCEPT !.isLoading = FALSE])
            /\ SetCalls(calls \ {c})
            /\ last' = Did("verifyOtpResponse", status, "false", FALSE, FALSE)
  /\ UNCHANGED <<layer, now, authLogout, cache>>

\* The profile response inside verifyOtp.
VerifyProfileResponse(c, status) ==
  /\ c \in calls /\ c.op = "verifyProfile"
  /\ LET s == IF status # NetworkError /\ Ok(status)
                THEN SetUser(Cur, WithProfile(UserData(c.token)))
                ELSE Cur
     IN  /\ Apply([s EXCEPT !.isLoading = FALSE])
         /\ last' = Did("verifyProfileResponse", status, "true", FALSE, TRUE)
  /\ SetCalls(calls \ {c})
  /\ UNCHANGED <<layer, now, authLogout, cache>>

\* ------------------------------------------------------------------ resource pages

\* The resource page of each query key, and the key of each page.
KeyPage(k) ==
  CASE k = "categories" -> "Categories"
    [] k = "paymentMethods" -> "Payments"
    [] k = "mediaTypes" -> "MediaTypes"

CrudPages == {KeyPage(k) : k \in Keys}

PageKey(p) == CHOOSE k \in Keys : KeyPage(k) = p

\* Form names: strings of spaces and letters.
Chars == {" ", "a"}

Names == UNION {[1..n -> Chars] : n \in 0..MaxName}

\* String.prototype.trim
RECURSIVE TrimStart(_)
TrimStart(str) ==
  IF str # <<>> /\ Head(str) = " " THEN TrimStart(Tail(str)) ELSE str

RECURSIVE TrimEnd(_)
TrimEnd(str) ==
  IF str # <<>> /\ str[Len(str)] = " "
    THEN TrimEnd(SubSeq(str, 1, Len(str) - 1))
    ELSE str

Trim(str) == TrimEnd(TrimStart(str))

\* No dialog is open: the page's buttons can be clicked (the dialogs are
\* modal).
NoDialog ==
  ~ui.isAddModalOpen /\ ~ui.isEditModalOpen /\ ~ui.isDeleteDialogOpen

\* isAuthenticated && user?.token, the guard of the pages' handlers
Authenticated == user.present /\ HasToken(user)

\* The list query of key k may run: Payments enables it on user?.token, the
\* other two pages always.
ListEnabled(k) == k = "paymentMethods" => HasToken(user)

\* A mutation awaiting its response: op is "create", "update" or "delete",
\* attempt the index of the authentication variant in use (createCategory),
\* live whether the page that started it is still mounted.
Mutation(op, res, attempt) ==
  [Call(op, NullToken, TRUE, attempt # 4, "")
     EXCEPT !.res = res, !.attempt = attempt]

Mutations == {"create", "update", "delete"}

\* createCategory's authMethods, in order.
authMethods == <<"Bearer Token", "Token Only", "X-Auth-Token", "No Auth">>

\* The list query of the mounted page fetches: on mount, on window focus or
\* after an invalidation (no staleTime: its data is always stale).
ListFetch ==
  /\ page \in CrudPages
  /\ LET k == PageKey(page)
     IN  /\ ListEnabled(k)
         /\ ~Fetching(k)
         /\ Room
         /\ calls' = calls \cup
              {[Call("list", NullToken, FALSE, k = "paymentMethods", "")
                  EXCEPT !.res = k]}
         /\ last' = [Did("list", NetworkError, "pending", FALSE,
                         k = "paymentMethods") EXCEPT !.res = k, !.sent = 1]
  /\ UNCHANGED <<layer, now, session, browser, cache, ui>>

\* fetchCategories / fetchPaymentMethods / fetchMediaTypes settle: rows on an
\* ok response, an Error otherwise (the cached rows stay).
ListResponse(c, status) ==
  /\ c \in calls /\ c.op = "list"
  /\ LET ok == status # NetworkError /\ Ok(status)
     IN  /\ cache' = IF ok
                       THEN [cache EXCEPT ![c.res] = Fetched("object")]
                       ELSE cache
         /\ last' = [Did("listResponse", status,
                         IF ok THEN "data" ELSE "throw", FALSE, c.bearer)
                       EXCEPT !.res = c.res, !.sent = 1]
  /\ calls' = calls \ {c}
  /\ UNCHANGED <<layer, now, session, browser, ui>>

\* What a handler that only shows a toast leaves behind.
Blocked(op) ==
  /\ last' = Did(op, NetworkError, "blocked", FALSE, FALSE)
  /\ UNCHANGED <<layer, now, session, browser, calls, cache, ui>>

\* handleAddCategory / handleAddPaymentMethod / handleAddMediaType
HandleAdd ==
  /\ page \in CrudPages
  /\ NoDialog
  /\ IF ~Authenticated THEN Blocked("handleAdd")
     ELSE /\ ui' = [ui EXCEPT !.isAddModalOpen = TRUE]
          /\ last' = Did("handleAdd", NetworkError, "none", FALSE, FALSE)
          /\ UNCHANGED <<layer, now, session, browser, calls, cache>>

\* handleEditCategory / ...: the form is filled from the row (name, and
\* description || '').
HandleEditRow(name, description) ==
  /\ page \in CrudPages
  /\ NoDialog
  /\ cache[PageKey(page)].hasData
  /\ Trim(name) # <<>>
  /\ IF ~Authenticated THEN Blocked("handleEdit")
     ELSE /\ ui' = [ui EXCEPT !.editing = TRUE, !.name = name,
                              !.description = description,
                              !.isEditModalOpen = TRUE]
          /\ last' = Did("handleEdit", NetworkError, "none", FALSE, FALSE)
          /\ UNCHANGED <<layer, now, session, browser, calls, cache>>

\* The row edited has no description.
HandleEdit(name) == HandleEditRow(name, <<>>)

\* handleDeleteCategory / ...
HandleDelete ==
  /\ page \in CrudPages
  /\ NoDialog
  /\ cache[PageKey(page)].hasData
  /\ IF ~Authenticated THEN Blocked("handleDelete")
     ELSE /\ ui' = [ui EXCEPT !.deleting = TRUE, !.isDeleteDialogOpen = TRUE]
          /\ last' = Did("handleDelete", NetworkError, "none", FALSE, FALSE)
          /\ UNCHANGED <<layer, now, session, browser, calls, cache>>

\* The name field of the open form is edited (disabled while submitting).
SetName(name) ==
  /\ page \in CrudPages
  /\ ui.isAddModalOpen \/ ui.isEditModalOpen
  /\ ~ui.isSubmitting
  /\ name # ui.name
  /\ ui' = [ui EXCEPT !.name = name]
  /\ last' = Did("setName", NetworkError, "none", FALSE, FALSE)
  /\ UNCHANGED <<layer, now, session, browser, calls, cache>>

\* The description field of the open form is edited (the media type form
\* has none).
SetDescription(description) ==
  /\ page \in {"Categories", "Payments"}
  /\ ui.isAddModalOpen \/ ui.isEditModalOpen
  /\ ~ui.isSubmitting
  /\ description # ui.description
  /\ ui' = [ui EXCEPT !.description = description]
  /\ last' = Did("setDescription", NetworkError, "none", FALSE, FALSE)
  /\ UNCHANGED <<layer, now, session, browser, calls, cache>>

\* resetForm
resetForm(u) ==
  [u EXCEPT !.name = <<>>, !.description = <<>>, !.isSubmitting = FALSE,
            !.editing = FALSE]

\* handleCloseModal
HandleCloseModal ==
  /\ page \in CrudPages
  /\ ui.isAddModalOpen \/ ui.isEditModalOpen
  /\ IF ui.isSubmitting THEN Blocked("handleCloseModal")
     ELSE /\ ui' = resetForm([ui EXCEPT !.isAddModalOpen = FALSE,
                                        !.isEditModalOpen = FALSE])
          /\ last' = Did("handleCloseModal", NetworkError, "none", FALSE,
                         FALSE)
          /\ UNCHANGED <<layer, now, session, browser, calls, cache>>

\* deleteMutation.isPending, for the mounted page
DeletePending ==
  \E c \in calls : c.op = "delete" /\ c.live /\ c.res = PageKey(page)

\* handleDeleteDialogClose
HandleDeleteDialogClose ==
  /\ page \in CrudPages
  /\ ui.isDeleteDialogOpen
  /\ IF DeletePending THEN Blocked("handleDeleteDialogClose")
     ELSE /\ ui' = [ui EXCEPT !.isDeleteDialogOpen = FALSE,
                              !.deleting = FALSE]
          /\ last' = Did("handleDeleteDialogClose", NetworkError, "none",
                         FALSE, FALSE)
          /\ UNCHANGED <<layer, now, session, browser, calls, cache>>

\* A field the request body does not have.
NoField == <<"undefined">>

submitData_Untrimmed(res, u) ==
  [name |-> u.name,
   description |-> IF res = "mediaTypes" THEN NoField ELSE u.description]

\* submitFormData / submitData: what handleSubmit hands to the mutation.
submitData(res, u) ==
  [name |-> Trim(u.name),
   description |-> IF res = "mediaTypes" THEN NoField
                   ELSE Trim(u.description)]

\* handleSubmit: blocked without a session or with a blank name; otherwise
\* isSubmitting is set and the create or update mutation sends its request
\* (for a category create: the first authentication variant).
HandleSubmit ==
  /\ page \in CrudPages
  /\ ui.isAddModalOpen \/ ui.isEditModalOpen
  /\ ~ui.isSubmitting
  /\ IF ~Authenticated \/ Trim(ui.name) = <<>> THEN Blocked("handleSubmit")
     ELSE /\ Room
          /\ LET op == IF ui.editing THEN "update" ELSE "create"
             IN  /\ calls' = calls \cup
                      {Mutation(op, PageKey(page), 1)}
                 /\ last' = [Did("handleSubmit", NetworkError, "pending",
                                 FALSE, TRUE)
                               EXCEPT !.res = PageKey(page), !.sent = 1,
                                      !.header = authMethods[1],
                                      !.name =
                                        submitData(PageKey(page), ui).name,
                                      !.description =
                                        submitData(PageKey(page),
                                                   ui).description]
          /\ ui' = [ui EXCEPT !.isSubmitting = TRUE]
          /\ UNCHANGED <<layer, now, session, browser, cache>>

\* handleConfirmDelete
HandleConfirmDelete ==
  /\ page \in CrudPages
  /\ ui.isDeleteDialogOpen
  /\ ~DeletePending
  /\ IF ~ui.deleting \/ ~HasToken(user) THEN Blocked("handleConfirmDelete")
     ELSE /\ Room
          /\ calls' = calls \cup {Mutation("delete", PageKey(page), 1)}
          /\ last' = [Did("handleConfirmDelete", NetworkError, "pending",
                          FALSE, TRUE)
                        EXCEPT !.res = PageKey(page), !.sent = 1,
                               !.header = authMethods[1]]
          /\ UNCHANGED <<layer, now, session, browser, cache, ui>>

mutationOutcome_ThrowsOnFirstFailure(c, status) ==
  IF status # NetworkError /\ Ok(status) THEN "success" ELSE "error"

\* What the API function of a mutation does with a response: createCategory
\* goes on to the next authentication variant until the last has failed,
\* every other function throws on a response that is not ok.
mutationOutcome(c, status) ==
  IF status # NetworkError /\ Ok(status) THEN "success"
  ELSE IF c.op = "create" /\ c.res = "categories"
          /\ c.attempt < Len(authMethods)
    THEN "next"
  ELSE "error"

onSettled_InvalidateAlways(c, outcome) ==
  [cache |-> [cache EXCEPT ![c.res].invalidated = TRUE],
   ui |-> IF outcome # "success" \/ ~c.live THEN ui
          ELSE IF c.op = "create"
            THEN resetForm([ui EXCEPT !.isAddModalOpen = FALSE])
          ELSE IF c.op = "update"
            THEN resetForm([ui EXCEPT !.isEditModalOpen = FALSE])
          ELSE [ui EXCEPT !.isDeleteDialogOpen = FALSE, !.deleting = FALSE]]

\* onSuccess / onError of the mutation: success invalidates the list query
\* and, when the page is still mounted, closes the dialog and resets the
\* form; an error only shows a toast.
onSettled(c, outcome) ==
  IF outcome # "success" THEN [cache |-> cache, ui |-> ui]
  ELSE [cache |-> [cache EXCEPT ![c.res].invalidated = TRUE],
        ui |-> IF ~c.live THEN ui
               ELSE IF c.op = "create"
                 THEN resetForm([ui EXCEPT !.isAddModalOpen = FALSE])
               ELSE IF c.op = "update"
                 THEN resetForm([ui EXCEPT !.isEditModalOpen = FALSE])
               ELSE [ui EXCEPT !.isDeleteDialogOpen = FALSE,
                               !.deleting = FALSE]]

\* The body of a response that is not ok: JSON with a message field, JSON
\* with a title field only, other valid JSON, or text that is not JSON.
Bodies == {"message", "title", "json", "text"}

\* errorData?.message || errorData?.title || 'Failed to ...'
ErrorText(body) ==
  CASE body = "message" -> "server message"
    [] body = "title" -> "server title"
    [] OTHER -> "Failed to"

\* What the try block throws: JSON.parse's SyntaxError for text that is not
\* JSON, otherwise the Error built from the parsed body.
ThrownInTry(body) ==
  IF body = "text" THEN "SyntaxError" ELSE ErrorText(body)

\* catch { throw new Error(`API Error (${response.status}): ...`) }: the
\* clause has no binding and replaces whatever the try block threw.
Caught(thrown) == "API Error"

\* The message of the Error an API function throws for a response (the text
\* of onError's toast).  A rejected fetch passes its own error on.
errorMessage(status, body) ==
  IF status = NetworkError THEN "network"
  ELSE IF status = 401 THEN "Authentication failed"
  ELSE Caught(ThrownInTry(body))

\* A mutation's request is answered.
MutationResponse(c, status, body) ==
  /\ c \in calls /\ c.op \in Mutations
  /\ LET outcome == mutationOutcome(c, status)
         n == c.attempt + 1
     IN  IF outcome = "next"
           THEN \* the loop of createCategory sends the next variant
                /\ calls' = (calls \ {c})
                     \cup {[Mutation(c.op, c.res, n)
                              EXCEPT !.live = c.live]}
                /\ last' = [Did("createCategory", status, "pending", FALSE,
                                c.bearer)
                              EXCEPT !.res = c.res, !.sent = n,
                                     !.header = authMethods[n],
                                     !.live = c.live]
                /\ UNCHANGED <<cache, ui>>
           ELSE LET r == onSettled(c, outcome)
                IN  /\ cache' = r.cache
                    /\ ui' = r.ui
                    /\ calls' = calls \ {c}
                    /\ last' = [Did(c.op, status, outcome, FALSE, c.bearer)
                                  EXCEPT !.res = c.res, !.sent = c.attempt,
                                         !.live = c.live,
                                         !.body = IF outcome = "error"
                                                      /\ status \notin
                                                           {NetworkError, 401}
                                                    THEN body ELSE "",
                                         !.toast = IF outcome = "error"
                                                     THEN errorMessage(status,
                                                                       body)
                                                     ELSE ""]
  /\ UNCHANGED <<layer, now, session, browser>>

\* The Products page: fetchCategories swallows every failure and returns an
\* empty array, so its query never sees a rejection.
productsFetchCategories(status) ==
  IF status # NetworkError /\ Ok(status) THEN "data" ELSE "empty"

\* The retry option of the Products page's categories query.
ProductsRetry == 3

ProductsCategoriesFetch ==
  /\ page = "Products"
  /\ ~cache["categories"].hasData \/ cache["categories"].invalidated
  /\ ~Fetching("categories")
  /\ Room
  /\ calls' = calls \cup
       {[Call("productsCategories", NullToken, FALSE, FALSE, "")
           EXCEPT !.res = "categories", !.attempt = 1]}
  /\ last' = [Did("productsCategories", NetworkError, "pending", FALSE, FALSE)
                EXCEPT !.res = "categories", !.sent = 1]
  /\ UNCHANGED <<layer, now, session, browser, cache, ui>>

\* The query settles, or runs its function again after a rejection while
\* fewer than ProductsRetry retries were made.
ProductsCategoriesResponse(c, status) ==
  /\ c \in calls /\ c.op = "productsCategories"
  /\ LET ret == productsFetchCategories(status)
     IN  IF ret = "throw" /\ c.attempt <= ProductsRetry
           THEN /\ calls' = (calls \ {c})
                     \cup {[c EXCEPT !.attempt = c.attempt + 1]}
                /\ last' = [Did("productsCategories", status, "pending",
                                FALSE, FALSE)
                              EXCEPT !.res = "categories",
                                     !.sent = c.attempt + 1]
                /\ UNCHANGED cache
           ELSE /\ calls' = calls \ {c}
                /\ cache' = [cache EXCEPT !["categories"] = Fetched("array")]
                /\ last' = [Did("productsCategoriesResponse", status, ret,
                                FALSE, FALSE)
                              EXCEPT !.res = "categories",
                                     !.sent = c.attempt]
  /\ UNCHANGED <<layer, now, session, browser, ui>>

\* ------------------------------------------------------------------ users search

\* useDebounce(searchTerm, 500)
DebounceDelay == 500

\* Time passes in steps of half the delay.
Step == DebounceDelay \div 2

\* What is typed into the search input.
SearchTerms == {<<>>, <<"a">>, <<"a", "a">>}

setSearchTerm_KeepTimeout(u, v) ==
  [u EXCEPT !.searchTerm = v, !.held = 0,
            !.timer = IF u.timer.pending THEN u.timer
                      ELSE [pending |-> TRUE, value |-> v, elapsed |-> 0]]

\* setSearchTerm(v) and the render after it: the effect of useDebounce is
\* cleaned up (clearTimeout) and sets a new timeout for v.
setSearchTerm(u, v) ==
  [u EXCEPT !.searchTerm = v, !.held = 0,
            !.timer = [pending |-> TRUE, value |-> v, elapsed |-> 0]]

\* onChange of the search input
SearchChange(v) ==
  /\ page = "Users"
  /\ v # ui.searchTerm
  /\ ui' = setSearchTerm(ui, v)
  /\ last' = Did("setSearchTerm", NetworkError, "none", FALSE, FALSE)
  /\ UNCHANGED <<layer, now, session, browser, calls, cache>>

\* Step milliseconds pass on the Users page.
TimePasses ==
  /\ page = "Users"
  /\ ui.held < DebounceDelay
       \/ (ui.timer.pending /\ ui.timer.elapsed < DebounceDelay)
  /\ ui' = [ui EXCEPT
              !.held = IF @ < DebounceDelay THEN @ + Step ELSE @,
              !.timer.elapsed = IF ui.timer.pending /\ @ < DebounceDelay
                                  THEN @ + Step ELSE @]
  /\ last' = Did("timePasses", NetworkError, "none", FALSE, FALSE)
  /\ UNCHANGED <<layer, now, session, browser, calls, cache>>

\* The timeout of useDebounce fires: setDebouncedValue(value).
DebounceFires ==
  /\ page = "Users"
  /\ ui.timer.pending
  /\ ui.timer.elapsed >= DebounceDelay
  /\ ui' = [ui EXCEPT !.debouncedValue = ui.timer.value,
                      !.timer.pending = FALSE]
  /\ last' = Did("setDebouncedValue", NetworkError, "none", FALSE, FALSE)
  /\ UNCHANGED <<layer, now, session, browser, calls, cache>>

\* ------------------------------------------------------------------ dashboard

\* The ids of sellers, customers, products and categories in the orders.
Groups == 1..MaxGroups

\* item.quantity as the backend sends it (0 also stands for a missing field).
Quantities == {0, 2}

\* An order of the analytics list with one item; the seller, the customer,
\* the product and the category carry the same id g.
Order(g, q) ==
  [sellerId |-> g, customerId |-> g,
   items |-> <<[productId |-> g, categoryId |-> g, quantity |-> q]>>]

\* item.quantity || 1
QuantityOr1(q) == IF q = 0 THEN 1 ELSE q

Front(xs) == SubSeq(xs, 1, Len(xs) - 1)

\* counts[key].count += w, the entry being created with count 0 when the
\* key is new.  The sequence keeps the insertion order of Object.entries.
AddTo(counts, key, w) ==
  IF \E i \in DOMAIN counts : counts[i].key = key
    THEN [i \in DOMAIN counts |->
            IF counts[i].key = key
              THEN [counts[i] EXCEPT !.count = @ + w]
              ELSE counts[i]]
    ELSE Append(counts, [key |-> key, count |-> w])

\* sellerCounts after orderData.forEach
RECURSIVE sellerCounts(_)
sellerCounts(orders) ==
  IF orders = <<>> THEN <<>>
  ELSE AddTo(sellerCounts(Front(orders)), orders[Len(orders)].sellerId, 1)

\* customerCounts after orderData.forEach
RECURSIVE customerCounts(_)
customerCounts(orders) ==
  IF orders = <<>> THEN <<>>
  ELSE AddTo(customerCounts(Front(orders)), orders[Len(orders)].customerId, 1)

\* order.items.forEach of categoryAnalytics, for items with a categoryId
RECURSIVE CountItems(_, _)
CountItems(counts, items) ==
  IF items = <<>> THEN counts
  ELSE AddTo(CountItems(counts, Front(items)),
             items[Len(items)].categoryId,
             QuantityOr1(items[Len(items)].quantity))

\* categoryCounts after orderData.forEach
RECURSIVE categoryCounts(_)
categoryCounts(orders) ==
  IF orders = <<>> THEN <<>>
  ELSE CountItems(categoryCounts(Front(orders)), orders[Len(orders)].items)

\* productCounts[key].orderIds.add(orderId): the set of the orders (by their
\* index) that hold the product.
OrderIds(orders, productId) ==
  {i \in DOMAIN orders :
     \E j \in DOMAIN orders[i].items :
       orders[i].items[j].productId = productId}

\* productCounts, with orderCount: orderIds.size under the name count
RECURSIVE productCounts(_, _)
productCounts(orders, n) ==
  IF n = 0 THEN <<>>
  ELSE LET before == productCounts(orders, n - 1)
           id == orders[n].items[1].productId
       IN  IF \E i \in DOMAIN before : before[i].key = id THEN before
           ELSE Append(before,
                       [key |-> id,
                        count |-> Cardinality(OrderIds(orders, id))])

SortByCount_Unsorted(xs) == xs

\* .sort((a, b) => b.count - a.count): descending by count, stable
RECURSIVE SortByCount(_)
SortByCount(xs) ==
  IF xs = <<>> THEN <<>>
  ELSE LET sorted == SortByCount(Front(xs))
           x == xs[Len(xs)]
           k == Cardinality({i \in DOMAIN sorted : sorted[i].count >= x.count})
       IN  SubSeq(sorted, 1, k) \o <<x>> \o SubSeq(sorted, k + 1, Len(sorted))

\* The N of the top-N rankings: .slice(0, 5)
TopN == 5

\* .slice(0, TopN)
Slice(xs) == SubSeq(xs, 1, IF Len(xs) < TopN THEN Len(xs) ELSE TopN)

categoryAnalytics(orders) == Slice(SortByCount(categoryCounts(orders)))
sellerAnalytics(orders) == Slice(SortByCount(sellerCounts(orders)))
customerAnalytics(orders) == Slice(SortByCount(customerCounts(orders)))
mostOrderedProducts(orders) ==
  Slice(SortByCount(productCounts(orders, Len(orders))))

\* The largest id in the orders (0 when there is none).
MaxId(orders) ==
  IF orders = <<>> THEN 0
  ELSE CHOOSE g \in Groups :
         /\ \E i \in DOMAIN orders : orders[i].sellerId = g
         /\ \A i \in DOMAIN orders : orders[i].sellerId <= g

\* The orders-analytics query delivers a list with one more order.  Ids are
\* opaque, so a new id is the next unused one.
OrdersFetched(g, q) ==
  /\ page = "Dashboard"
  /\ HasToken(user)
  /\ Len(ui.orders) < MaxOrders
  /\ g <= MaxId(ui.orders) + 1
  /\ ui' = [ui EXCEPT !.orders = Append(@, Order(g, q))]
  /\ last' = Did("ordersFetched", 200, "data", FALSE, TRUE)
  /\ UNCHANGED <<layer, now, session, browser, calls, cache>>

\* ------------------------------------------------------------------ specification

\* The session layer: both AuthContext versions, opened on the login page or
\* on the dashboard.
SessionPaths == {"/login", "/"}

Init == Start(Layers, 1..MaxTime, Users, SessionPaths)

Next ==
  \/ Reload
  \/ Tick
  \/ \E path \in SessionPaths : Navigate(path)
  \/ Logout
  \/ TimerFires
  \/ Login
  \/ \E c \in calls, status \in Outcomes, token \in Tokens :
       LoginResponse(c, status, token)
  \/ \E c \in calls, status \in Outcomes : LoginProfileResponse(c, status)
  \/ \E phone \in Phones : OtpLogin(phone)
  \/ \E c \in calls, status \in Outcomes : OtpLoginResponse(c, status)
  \/ VerifyOtp
  \/ \E c \in calls, status \in Outcomes, token \in Tokens :
       VerifyOtpResponse(c, status, token)
  \/ \E c \in calls, status \in Outcomes : VerifyProfileResponse(c, status)
  \/ FetchUserProfile
  \/ \E c \in calls, status \in Outcomes :
       FetchUserProfileResponse(c, status)

Spec == Init /\ [][Next]_vars

\* The authenticated requests: the useApi wrappers and the list fetches of
\* the Orders, Payments and Users pages, under any stored session.
ApiPaths == {"/login", "/orders", "/payments", "/users"}

InitApi == Start(Layers, 1..MaxTime, Users, ApiPaths)

NextApi ==
  \/ Reload
  \/ Tick
  \/ \E path \in ApiPaths : Navigate(path)
  \/ Logout
  \/ TimerFires
  \/ \E requiresAuth \in BOOLEAN : ApiCall(requiresAuth)
  \/ \E c \in calls, status \in Outcomes : ApiCallResponse(c, status)
  \/ MakeAuthenticatedCall
  \/ \E c \in calls, status \in Outcomes :
       MakeAuthenticatedCallResponse(c, status)
  \/ \E op \in PageFetches : PageFetch(op)
  \/ \E c \in calls, status \in Outcomes : PageFetchResponse(c, status)

SpecApi == InitApi /\ [][NextApi]_vars

\* The route table: every path, with sessions starting and ending.
InitRoutes == Start(Layers, 1..MaxTime, Users, Paths)

NextRoutes ==
  \/ Reload
  \/ \E path \in Paths : Navigate(path)
  \/ Logout
  \/ TimerFires
  \/ Login
  \/ \E c \in calls, status \in Outcomes, token \in Tokens :
       LoginResponse(c, status, token)
  \/ \E c \in calls, status \in Outcomes : LoginProfileResponse(c, status)

SpecRoutes == InitRoutes /\ [][NextRoutes]_vars

\* The resource pages with create / update / delete, and the Products page.
CrudPaths == {"/categories", "/payments", "/media-types", "/products"}

\* Sessions of the resource pages: a token without an exp claim, or a
\* session without a token.
CrudSessions ==
  {UserData([kind |-> "jwt", exp |-> NoExp]), UserData(NullToken)}

\* The names typed into the form.
CrudNames == {<<"a">>}

\* The responses to the requests of the resource pages.
CrudOutcomes == {NetworkError, 200, 401, 500}

InitCrud == Start({"email"}, {1}, CrudSessions, CrudPaths)

NextCrud ==
  \/ \E path \in {"/categories", "/products"} : Navigate(path)
  \/ Logout
  \/ ListFetch
  \/ \E c \in calls, status \in CrudOutcomes : ListResponse(c, status)
  \/ HandleAdd
  \/ \E name \in CrudNames : HandleEdit(name)
  \/ HandleDelete
  \/ \E name \in CrudNames : SetName(name)
  \/ HandleCloseModal
  \/ HandleDeleteDialogClose
  \/ HandleSubmit
  \/ HandleConfirmDelete
  \/ \E c \in calls, status \in CrudOutcomes, body \in Bodies :
       MutationResponse(c, status, body)
  \/ ProductsCategoriesFetch
  \/ \E c \in calls, status \in CrudOutcomes :
       ProductsCategoriesResponse(c, status)

SpecCrud == InitCrud /\ [][NextCrud]_vars

\* The add and edit forms of the three resource pages, with every name and
\* description of spaces and letters.
FormPaths == {"/categories", "/payments", "/media-types"}

FormOutcomes == {200, 500}

InitForm == Start({"email"}, {1}, CrudSessions, FormPaths)

NextForm ==
  \/ ListFetch
  \/ \E c \in calls, status \in FormOutcomes : ListResponse(c, status)
  \/ HandleAdd
  \/ \E name \in Names, description \in Names :
       HandleEditRow(name, description)
  \/ \E name \in Names : SetName(name)
  \/ \E description \in Names : SetDescription(description)
  \/ HandleCloseModal
  \/ HandleSubmit
  \/ \E c \in calls, status \in FormOutcomes :
       MutationResponse(c, status, "json")

SpecForm == InitForm /\ [][NextForm]_vars

\* The dashboard: a logged-in user on /, the analytics list growing.
DashSessions == {UserData([kind |-> "jwt", exp |-> NoExp])}

InitDash == Start({"email"}, {1}, DashSessions, {"/"})

NextDash ==
  \/ \E g \in Groups, q \in Quantities : OrdersFetched(g, q)
  \/ Reload

SpecDash == InitDash /\ [][NextDash]_vars

\* The Users page: a logged-in user types into the search input while time
\* passes; timers that are due fire.
InitUsers == Start({"email"}, {1}, DashSessions, {"/users"})

NextUsers ==
  \/ \E v \in SearchTerms : SearchChange(v)
  \/ TimePasses
  \/ DebounceFires
  \/ PageFetch("fetchUsers")
  \/ \E c \in calls, status \in CrudOutcomes : PageFetchResponse(c, status)

SpecUsers ==
  /\ InitUsers
  /\ [][NextUsers]_vars
  /\ WF_vars(TimePasses)
  /\ WF_vars(DebounceFires)

\* ------------------------------------------------------------------ claims

\* A session is cleared: user is null, the stored entry is removed.
Cleared == user = NoUser /\ storage = NoUser

\* C1: every 401 or 403 response to a request that carries the bearer token
\* leads to forced logout (user null, stored session removed, browser at
\* /login), for the wrappers of useApi and for the page-level fetches
\* fetchOrders, fetchPaymentMethods and fetchUsers alike.
C1_EveryAuthFailureForcesLogout ==
  (IsAuthFailure(last.status) /\ last.bearer)
    => (Cleared /\ location = "/login")

\* C2: a 401 or 403 response received by apiCall with requiresAuth = true, or
\* by makeAuthenticatedCall while window.__authLogout is registered, makes
\* the wrapper call logout and return null; apiCall with requiresAuth =
\* false returns that response and does not call logout.
C2_WrappersLogOutOnAuthFailure ==
  /\ (/\ last.op = "apiCallResponse"
      /\ last.auth
      /\ IsAuthFailure(last.status))
       => (last.ret = "null" /\ last.loggedOut /\ Cleared)
  /\ (/\ last.op = "makeAuthenticatedCallResponse"
      /\ authLogout
      /\ IsAuthFailure(last.status))
       => (last.ret = "null" /\ last.loggedOut /\ Cleared)
  /\ (/\ last.op = "apiCallResponse"
      /\ ~last.auth
      /\ IsAuthFailure(last.status))
       => (last.ret = "response" /\ ~last.loggedOut)

\* C2 witness: makeAuthenticatedCall has just handled a 401 sent with the
\* bearer token and logged the user out.
C2_Witness ==
  /\ last.op = "makeAuthenticatedCallResponse"
  /\ last.status = 401
  /\ last.bearer
  /\ last.loggedOut

\* C3: no resource page is rendered while isAuthenticated is false, and the
\* path /login renders the login page with or without a session.
C3_RoutesAreGated ==
  /\ page \in ResourcePages => user.present
  /\ location = "/login" => page = "Login"

\* C3 witness: a logout on a resource page has put the browser on the login
\* page without a session.
C3_Witness ==
  /\ last.op = "logout"
  /\ ~user.present
  /\ page = "Login"

\* C4: immediately after logout user is null, isAuthenticated is false and
\* localStorage has no 'user' entry; in the phone/OTP layer currentStep is
\* 'phone' and pendingPhone is empty as well.
C4_LogoutClearsSession ==
  last.loggedOut =>
    /\ Cleared
    /\ ~user.present
    /\ layer = "otp" => (currentStep = "phone" /\ pendingPhone = "")

\* C4 witness: the OTP layer's logout has run.
C4_Witness ==
  /\ layer = "otp"
  /\ last.op = "logout"
  /\ last.loggedOut

\* C5: once the session token's exp time has passed, the periodic expiration
\* check clears the session: right after the timer has fired no session
\* whose exp lies in the past remains.
C5_TimerClearsExpiredSession ==
  (layer = "email" /\ last.op = "timer")
    => ~(user.present /\ ExpHasPassed(user.token, now))

\* C6: AuthProvider initialised with a stored session whose token is expired
\* or cannot be decoded starts with user = null and removes the entry; with
\* a stored token that is not expired it starts with exactly the stored
\* user; with no stored entry it starts unauthenticated.
C6_InitialUserFromStorage ==
  (layer = "email" /\ last.op = "init") =>
    /\ (/\ HasToken(last.saved)
        /\ \/ last.saved.token.kind = "garbage"
           \/ ExpHasPassed(last.saved.token, now))
         => Cleared
    /\ (/\ HasToken(last.saved)
        /\ last.saved.token.kind = "jwt"
        /\ ~ExpHasPassed(last.saved.token, now))
         => (user = last.saved /\ storage = last.saved)
    /\ ~last.saved.present => ~user.present

\* The dialog a mutation was started from is closed.
DialogClosed(op, u) ==
  CASE op = "create" -> ~u.isAddModalOpen
    [] op = "update" -> ~u.isEditModalOpen
    [] op = "delete" -> ~u.isDeleteDialogOpen

\* C7: for categories, payment methods and media types, a create, update or
\* delete mutation that succeeds invalidates the list query of its resource
\* and closes its dialog (which, when the page was left meanwhile, went away
\* with the page); a mutation that fails leaves the cache as it was.
C7_MutationSettles ==
  [][last'.op \in Mutations =>
       IF last'.ret = "success"
         THEN /\ cache'[last'.res].invalidated
              /\ last'.live => DialogClosed(last'.op, ui')
         ELSE cache' = cache]_vars

\* C7 witness: a mutation of the mounted page has succeeded, its list query
\* is invalidated and no dialog is open.
C7_Witness ==
  /\ last.op \in Mutations
  /\ last.ret = "success"
  /\ last.live
  /\ cache[last.res].invalidated
  /\ NoDialog

\* C8: no request is re-sent automatically: a submission or a fetch has
\* sent at most one request, so one category-create submission issues at
\* most one POST /api/Category and a failed categories fetch of the Products
\* page is not repeated.
C8_NoRequestIsResent == last.sent <= 1

\* C9: every POST /api/Category sent for a category create carries the
\* user's token in a request header.
C9_CreateCarriesToken ==
  (/\ last.op \in {"handleSubmit", "createCategory"}
   /\ last.res = "categories"
   /\ last.ret = "pending")
    => last.header \in {"Bearer Token", "Token Only", "X-Auth-Token"}

\* A login, verifyOtp or profile request is awaiting its response.
SessionCalls ==
  {c \in calls : c.op \in {"login", "loginProfile", "otpLogin", "verifyOtp",
                            "verifyProfile", "fetchUserProfile"}}

\* C11: while no login, verifyOtp or profile request is in flight, the
\* in-memory user and the localStorage 'user' entry agree: both absent, or
\* both present with the same token and the same profile fields.
C11_UserAgreesWithStorage ==
  SessionCalls = {} => user = storage

\* C11 witness: a login has completed with its profile stored, and nothing
\* is in flight.
C11_Witness ==
  /\ last.op = "loginProfileResponse"
  /\ calls = {}
  /\ user.present /\ user.profile
  /\ storage.present

\* C12: whatever the order of visits and fetch completions, each of the two
\* pages that share the ['categories'] entry reads from it a value of the
\* shape its own fetch function produces: an array on the Products page,
\* the { categories, pagination } object on the Categories page.
C12_SharedEntryHasReadersShape ==
  cache["categories"].hasData =>
    /\ page = "Products" => cache["categories"].shape = "array"
    /\ page = "Categories" => cache["categories"].shape = "object"

\* C13: a create, update or delete request that fails with a status other
\* than 401 and a JSON body with a message (or title) field throws that
\* server-supplied text, which the failure toast shows; the generic 'API
\* Error' text is used only when the body is not valid JSON.
C13_ToastShowsServerMessage ==
  (last.op \in Mutations /\ last.ret = "error"
     /\ last.status \notin {NetworkError, 401}) =>
    /\ last.body = "message" => last.toast = "server message"
    /\ last.body = "title" => last.toast = "server title"
    /\ last.toast = "API Error" => last.body = "text"

\* A ranking of the groups in counts: at most TopN entries, by
\* non-increasing count, every group left out counting no more than any
\* group kept.
IsRanking(ranking, counts) ==
  /\ Len(ranking) <= TopN
  /\ \A i, j \in DOMAIN ranking : i < j => ranking[i].count >= ranking[j].count
  /\ \A i \in DOMAIN ranking : \E k \in DOMAIN counts : counts[k] = ranking[i]
  /\ \A k \in DOMAIN counts :
       (\A i \in DOMAIN ranking : ranking[i].key # counts[k].key)
         => /\ Len(ranking) = TopN
            /\ \A i \in DOMAIN ranking : counts[k].count <= ranking[i].count

\* C14: each of the four dashboard rankings (top categories, sellers,
\* customers, products) has at most 5 entries, ordered by non-increasing
\* count (orderCount for products), and every group left out of a ranking
\* has a count no greater than the smallest count kept in it.
C14_RankingsAreTopFive ==
  page = "Dashboard" =>
    /\ IsRanking(categoryAnalytics(ui.orders), categoryCounts(ui.orders))
    /\ IsRanking(sellerAnalytics(ui.orders), sellerCounts(ui.orders))
    /\ IsRanking(customerAnalytics(ui.orders), customerCounts(ui.orders))
    /\ IsRanking(mostOrderedProducts(ui.orders),
                 productCounts(ui.orders, Len(ui.orders)))

\* C14 witness: more than five sellers and categories were counted, with
\* different counts, so each ranking left a group out.
C14_Witness ==
  /\ page = "Dashboard"
  /\ Len(sellerCounts(ui.orders)) > TopN
  /\ Len(categoryCounts(ui.orders)) > TopN
  /\ sellerAnalytics(ui.orders)[1].count > sellerAnalytics(ui.orders)[TopN].count
  /\ categoryAnalytics(ui.orders)[1].count
       > categoryAnalytics(ui.orders)[TopN].count

\* The search input changes in this step.
Typed == page = "Users" /\ page' = "Users" /\ ui'.searchTerm # ui.searchTerm

\* C15: the debounced term takes a value only after the search input has
\* held that value unchanged for the full 500 ms; every change of the input
\* cancels the pending update (the only timeout left is a fresh one for the
\* new value); a users request is issued for the debounced term only; and
\* once typing stops the debounced term eventually equals the input.
C15_SearchIsDebounced ==
  /\ [][(page = "Users" /\ page' = "Users"
           /\ ui'.debouncedValue # ui.debouncedValue)
          => (ui'.debouncedValue = ui.searchTerm
                /\ ui.held >= DebounceDelay)]_vars
  /\ [][Typed => ui'.timer = [pending |-> TRUE, value |-> ui'.searchTerm,
                              elapsed |-> 0]]_vars
  /\ []((page = "Users" /\ last.op = "fetchUsers" /\ last.ret = "pending")
          => last.name = ui.debouncedValue)
  /\ ([]<><<Typed>>_vars
        \/ <>[](page = "Users" => ui.debouncedValue = ui.searchTerm))

\* C15 witness: a typed term was held for the delay, became the debounced
\* term and a users request was issued for it.
C15_Witness ==
  /\ page = "Users"
  /\ last.op = "fetchUsers" /\ last.ret = "pending"
  /\ last.name = <<"a">>
  /\ ui.debouncedValue = <<"a">>
  /\ ui.searchTerm = <<"a">>

\* C16: in the phone/OTP layer currentStep becomes 'otp' (or pendingPhone
\* changes within it) only by a successful login response, after which
\* pendingPhone is the phone passed to that login; the step is left only by
\* a successful verifyOtp, a logout or a page load, so no verifyOtp has set
\* user within it; a failed login or verifyOtp changes none of currentStep,
\* pendingPhone and user; a successful verifyOtp sets user and returns to
\* step 'phone' with pendingPhone empty.  Requests may overlap.
C16_OtpStepMachine ==
  /\ []((layer = "otp" /\ last.op = "otpLoginResponse" /\ last.ret = "true")
          => (currentStep = "otp" /\ pendingPhone = last.phone))
  /\ []((layer = "otp" /\ last.op = "verifyOtpResponse"
            /\ last.ret = "pending")
          => (user.present /\ currentStep = "phone" /\ pendingPhone = ""))
  /\ [](layer = "otp" => (currentStep = "otp" <=> pendingPhone # ""))
  /\ [][layer = "otp" =>
         /\ (currentStep' = "otp"
               /\ (currentStep # "otp" \/ pendingPhone' # pendingPhone))
              => (last'.op = "otpLoginResponse" /\ last'.ret = "true")
         /\ (currentStep = "otp" /\ currentStep' # "otp")
              => \/ last'.op = "verifyOtpResponse" /\ last'.ret = "pending"
                 \/ last'.loggedOut
                 \/ last'.op = "init"
         /\ (currentStep = "otp" /\ currentStep' = "otp")
              => last'.op # "verifyOtpResponse" \/ user' = user
         /\ (last'.op \in {"otpLoginResponse", "verifyOtpResponse"}
               /\ last'.ret = "false")
              => UNCHANGED <<currentStep, pendingPhone, user>>]_vars

\* C16 witness: a verifyOtp has failed in step 'otp' while a re-sent login
\* is still awaiting its response.
C16_Witness ==
  /\ layer = "otp"
  /\ last.op = "verifyOtpResponse" /\ last.ret = "false"
  /\ currentStep = "otp"
  /\ \E c \in calls : c.op = "otpLogin" /\ c.phone = pendingPhone

\* C17: isTokenExpired(token) is true for every token whose payload cannot
\* be decoded, and for a decodable one exactly when an exp claim is present
\* and strictly earlier than the current time.  The initialiser applies it
\* to the stored token and keeps the session exactly when it returns a
\* falsy value.
C17_IsTokenExpired ==
  (layer = "email" /\ last.op = "init" /\ HasToken(last.saved)) =>
    (~user.present <=> (\/ last.saved.token.kind # "jwt"
                        \/ ExpHasPassed(last.saved.token, now)))

\* C18: a failed e-mail login leaves the session unchanged.  A login
\* response that makes login return false changes neither user nor the
\* stored entry and leaves isLoading false; login goes on past the response
\* only when the response is OK and the exp time of its token (the token of
\* the session it stores) has not passed; isLoading is false after every
\* outcome of login.
C18_FailedLoginKeepsSession ==
  /\ [][(layer = "email" /\ last'.op = "loginResponse") =>
         /\ last'.ret = "false"
              => (user' = user /\ storage' = storage /\ ~isLoading')
         /\ last'.ret # "false"
              => /\ Ok(last'.status)
                 /\ ~ExpHasPassed(user'.token, now')]_vars
  /\ []((/\ layer = "email"
         /\ last.op \in {"loginResponse", "loginProfileResponse"}
         /\ last.ret \in {"true", "false"})
          => ~isLoading)

C20_ApiCallRefusesExpiredToken ==
  [][(layer = "email" /\ last'.op = "apiCall" /\ last'.auth) =>
       /\ (~HasToken(user) \/ ExpHasPassed(user.token, now))
            => /\ last'.ret = "null"
               /\ \A c \in calls' :
                    c.op = "apiCall" =>
                      (c \in calls \/ [c EXCEPT !.live = TRUE] \in calls)
       /\ (HasToken(user) /\ ExpHasPassed(user.token, now))
            => (last'.loggedOut /\ Cleared')
       /\ (last'.ret = "pending" /\ HasToken(storage'))
            => ~ExpHasPassed(storage'.token, now')]_vars

C22_SubmitSendsTrimmedValidForm ==
  [][last'.op = "handleSubmit" =>
       LET sent == {c \in calls' \ calls : c.op \in {"create", "update"}}
           valid == /\ user.present /\ TokenTruthy(user.token)
                    /\ Trim(ui.name) # <<>>
       IN  /\ sent # {} =>
                /\ valid
                /\ last'.name = Trim(ui.name)
                /\ last'.res # "mediaTypes"
                     => last'.description = Trim(ui.description)
           /\ ~valid =>
                /\ calls' = calls
                /\ ~ui'.isSubmitting
                /\ ui'.isAddModalOpen = ui.isAddModalOpen
                /\ ui'.isEditModalOpen = ui.isEditModalOpen
                /\ ui'.isAddModalOpen \/ ui'.isEditModalOpen]_vars

\* C22 witness: a payment method form whose name and description both had
\* surrounding spaces was submitted and its request sent.
C22_Witness ==
  /\ last.op = "handleSubmit" /\ last.ret = "pending"
  /\ last.res = "paymentMethods"
  /\ ui.isSubmitting
  /\ ui.name = <<" ", "a">> /\ last.name = <<"a">>
  /\ ui.description = <<"a", " ">> /\ last.description = <<"a">>

\* C10: every session established by login or verifyOtp stores a bearer
\* token: when isAuthenticated is true after either, user.token is a
\* non-empty string.
C10_SessionHasToken ==
  (/\ last.op \in {"loginResponse", "loginProfileResponse",
                   "verifyOtpResponse", "verifyProfileResponse"}
   /\ user.present)
    => TokenTruthy(user.token)

====
